---- MODULE Spec2Model ----
(***************************************************************************)
(* Model of the build orchestrator of install/builder: the image           *)
(* reconciler (_ensure_image / ensure_images), the builder reconciler      *)
(* (_run_builder / run_builders), the thread-pool fan-out both use, the    *)
(* pipeline of main, and the export resolver; and of the part of          *)
(* Graph.run of simulate-net that launches and ends the node and hub       *)
(* processes.                                                              *)
(*                                                                         *)
(* The container engine is the environment: an image is tagged or not, a   *)
(* container is absent, running or exited with a status.  Only the calls   *)
(* of the program and the termination of a running container change it.    *)
(***************************************************************************)
EXTENDS Integers, Sequences, FiniteSets, TLC

\* ------------------------------------------------------------------ bounds
NImages == 2
NBuilders == 2
\* max_workers of the ThreadPoolExecutor (min(32, cpu + 4) in the library)
MaxWorkers == 2
\* how many times export is run over the same output directory
MaxRounds == 2
\* how many times in a row run_builders is called
MaxCalls == 2
\* simulate-net: how many node and hub processes the graph has
NProcs == 3
\* simulate-net: how many node-to-hub connections are set up
NConns == 1

Images == 1..NImages
Builders == 1..NBuilders
Threads == 1..MaxWorkers
\* Thread 0 is the main thread; the clients are named after their creator.
AllThreads == {0} \cup Threads
Procs == 1..NProcs
ExitCodes == {0, 1}

\* An item of a fan-out call: one entry of images.items() / builders.items(),
\* in declaration order.
ItemsOf(k) ==
  IF k = "image" THEN {<<"image", i>> : i \in Images}
  ELSE {<<"builder", b>> : b \in Builders}
Items == ItemsOf("image") \cup ItemsOf("builder")
CountOf(k) == IF k = "image" THEN NImages ELSE NBuilders

Idle == <<"idle", 0>>
NoErr == [kind |-> "none", item |-> Idle, code |-> 0]
Err(kind, item, code) == [kind |-> kind, item |-> item, code |-> code]

Absent == [state |-> "absent", code |-> 0]
Running == [state |-> "running", code |-> 0]
Exited(c) == [state |-> "exited", code |-> c]

\* One engine call as recorded in the history of an item.
Call(op, res, code) == [op |-> op, res |-> res, code |-> code]

VARIABLES
  mainpc,     \* position of the calling thread: main's step, or "done"/"error"
  caller,     \* "main" (the pipeline) or "direct" (a fan-out called on its own)
  build,      \* the build argument of ensure_images / run_builders
  declared,   \* per kind: is the mapping of the specification None or a mapping
  mainErr,    \* the error the calling thread ended with
  fpc,        \* position inside the current fan-out call
  cursor,     \* index of the future the result iterator waits for
  submitted,  \* how many items exec.map has submitted
  raising,    \* the error the fan-out call is about to raise
  task,       \* state of each item's future
  wpc,        \* position of each item's worker
  thr,        \* the item each pool thread is running
  err,        \* the exception each item's worker ended with
  runs,       \* how many times each item's worker was started
  calls,      \* the engine calls each item's worker has made, in order
  image,      \* engine: is the tag {project}_{name} present
  container,  \* engine: state of the container {project}_{name}
  tree,       \* buildspec["exports"] as export() received it
  exports,    \* the flattened export tree being resolved
  src,        \* per leaf read so far: does its source resolve, and to which bytes
  round,      \* which run of export over the same inputs this is
  dist1,      \* the output directory as the previous run of export left it
  leaf,       \* index of the export leaf being resolved
  pending,    \* the (path, bytes) pair yielded and not yet written
  resolved,   \* the leaves resolved so far
  dist,       \* the output directory: a set of [path, bytes]
  tls,        \* threading.local: per storage slot, the client stored in it
  made,       \* per thread: how many clients it has created
  usedBy,     \* per client: the threads that have made an engine call with it
  hung,       \* the builders whose container never reaches a terminal state
  ncall,      \* how many reconciliation calls have been made, this one included
  prev,       \* per builder: how the call before left its worker
  netpc,      \* simulate-net: position of Graph.run
  nidx,       \* simulate-net: index of the loop Graph.run is in
  procs,      \* simulate-net: state of each node or hub subprocess
  signalled,  \* simulate-net: the subprocesses terminate() was called on
  waited      \* simulate-net: the subprocesses waited for after terminate()

poolVars == <<fpc, cursor, submitted, raising, task, wpc, thr, err, runs, calls>>
engineVars == <<image, container>>
exportVars == <<tree, exports, src, round, dist1, leaf, pending, resolved, dist>>
clientVars == <<tls, made, usedBy>>
netVars == <<netpc, nidx, procs, signalled, waited>>
\* What no step of the pipeline changes.
outerVars == <<hung, ncall, prev, netVars>>
vars == <<mainpc, caller, build, declared, mainErr, poolVars, engineVars, exportVars,
          clientVars, outerVars>>

\* What the output directory holds before the run.
OldDist == {[path |-> <<"stale">>, bytes |-> <<7>>]}
NoPending == [kind |-> "none", path |-> <<>>, bytes |-> <<>>]
\* The byte strings a leaf's source may hold.
Contents == {<<0>>, <<1>>}
Source == [ok : BOOLEAN, bytes : Contents]

TypeOK ==
  /\ mainpc \in {"set_env", "ensure_images", "run_builders", "clean", "export",
                 "tag", "postbuild", "done", "error"}
  /\ caller \in {"main", "direct", "export"}
  /\ build \in BOOLEAN
  /\ declared \in [{"image", "builder"} -> {"unread", "none", "mapping"}]
  /\ fpc \in {"call", "submit", "results", "shutdown"}
  /\ task \in [Items -> {"none", "queued", "running", "ok", "failed", "cancelled"}]
  /\ thr \in [Threads -> Items \cup {Idle}]
  /\ image \in [Images -> BOOLEAN]
  /\ container \in [Builders -> {Absent, Running} \cup {Exited(c) : c \in ExitCodes}]
  /\ leaf \in 1..(Len(exports) + 1)
  /\ round \in 1..MaxRounds
  /\ ncall \in 1..MaxCalls
  /\ tls \in [AllThreads -> SUBSET AllThreads]
  /\ hung \subseteq Builders
  /\ procs \in [Procs -> {"none", "running", "exited"}]
  /\ signalled \subseteq Procs /\ waited \subseteq Procs

InitPool ==
  /\ fpc = "call"
  /\ cursor = 1
  /\ submitted = 0
  /\ raising = NoErr
  /\ task = [it \in Items |-> "none"]
  /\ wpc = [it \in Items |-> "none"]
  /\ thr = [t \in Threads |-> Idle]
  /\ err = [it \in Items |-> NoErr]
  /\ runs = [it \in Items |-> 0]
  /\ calls = [it \in Items |-> <<>>]

InitEngine ==
  /\ image \in [Images -> BOOLEAN]
  /\ container \in [Builders -> {Absent} \cup {Exited(c) : c \in ExitCodes}]

InitClient ==
  /\ tls = [t \in AllThreads |-> {}]
  /\ made = [t \in AllThreads |-> 0]
  /\ usedBy = [t \in AllThreads |-> {}]

InitOuter ==
  /\ ncall = 1
  /\ prev = [b \in Builders |-> "none"]
  /\ netpc = "idle"
  /\ nidx = 1
  /\ procs = [p \in Procs |-> "none"]
  /\ signalled = {}
  /\ waited = {}

InitExport ==
  /\ tree = [tag |-> "null", items |-> <<>>, s |-> "", n |-> 0]
  /\ exports = <<>>
  /\ src = <<>>
  /\ round = 1
  /\ dist1 = {}
  /\ leaf = 1
  /\ pending = NoPending
  /\ resolved = {}
  /\ dist = OldDist

\* The pipeline: main calls both fan-outs with build=False.
Init ==
  /\ mainpc = "set_env"
  /\ caller = "main"
  /\ build = FALSE
  /\ declared = [k \in {"image", "builder"} |-> "unread"]
  /\ mainErr = NoErr
  /\ InitPool /\ InitEngine /\ InitExport /\ InitClient /\ InitOuter
  /\ hung = {}

\* ensure_images or run_builders called on its own, with either value of build.
InitCall ==
  /\ mainpc \in {"ensure_images", "run_builders"}
  /\ caller = "direct"
  /\ build \in BOOLEAN
  /\ declared = [k \in {"image", "builder"} |-> "unread"]
  /\ mainErr = NoErr
  /\ InitPool /\ InitEngine /\ InitExport /\ InitClient /\ InitOuter
  /\ hung = {}
  \* ensure_images makes no container call: its runs start with no container;
  \* run_builders is called with the images in place
  /\ mainpc = "ensure_images" => container = [b \in Builders |-> Absent]
  /\ mainpc = "run_builders" => image = [i \in Images |-> TRUE]

\* ------------------------------------------------------------ the fan-out
KindOf(pc) == IF pc = "ensure_images" THEN "image" ELSE "builder"
InFanOut == mainpc \in {"ensure_images", "run_builders"}
Kind == KindOf(mainpc)

\* Where the calling thread goes when a fan-out call returns.
AfterFanOut ==
  IF caller = "direct" THEN "done"
  ELSE IF mainpc = "ensure_images" THEN "run_builders" ELSE "clean"

\* `if images is None: return`
FanOutNone ==
  /\ InFanOut /\ fpc = "call"
  /\ declared' = [declared EXCEPT ![Kind] = "none"]
  /\ mainpc' = AfterFanOut
  /\ UNCHANGED <<caller, build, mainErr, poolVars, engineVars, exportVars, clientVars, outerVars>>

\* `with ThreadPoolExecutor() as exec:` then exec.map starts submitting.  The
\* executor, its threads and its futures are new in every call: what the
\* call before left is gone.
FanOutEnter ==
  /\ InFanOut /\ fpc = "call"
  /\ declared' = [declared EXCEPT ![Kind] = "mapping"]
  /\ fpc' = "submit"
  /\ submitted' = 0
  /\ cursor' = 1
  /\ raising' = NoErr
  /\ thr' = [t \in Threads |-> Idle]
  /\ task' = [it \in Items |-> "none"]
  /\ wpc' = [it \in Items |-> "none"]
  /\ err' = [it \in Items |-> NoErr]
  /\ runs' = [it \in Items |-> 0]
  /\ calls' = [it \in Items |-> <<>>]
  /\ UNCHANGED <<mainpc, caller, build, mainErr, engineVars, exportVars, clientVars, outerVars>>


\* exec.map: fs = [self.submit(fn, *args) for args in zip(*iterables)]
Submit ==
  /\ InFanOut /\ fpc = "submit"
  /\ IF submitted < CountOf(Kind)
     THEN /\ submitted' = submitted + 1
          /\ task' = [task EXCEPT ![<<Kind, submitted + 1>>] = "queued"]
          /\ fpc' = fpc
     ELSE /\ fpc' = "results"
          /\ UNCHANGED <<submitted, task>>
  /\ UNCHANGED <<mainpc, caller, build, declared, mainErr, cursor, raising, wpc, thr, err,
                 runs, calls, engineVars, exportVars, clientVars, outerVars>>

\* The work queue is FIFO: a thread takes the first queued item that was not
\* cancelled.
QueueHead(k) ==
  LET q == {n \in 1..CountOf(k) : task[<<k, n>>] = "queued"}
  IN IF q = {} THEN 0 ELSE CHOOSE n \in q : \A m \in q : n <= m

\* The executor starts its threads one after the other, as submit finds none
\* idle: a thread that has not worked yet is the next one in that order.
NotStarted(t) == thr[t] = Idle /\ tls[t] = {} /\ made[t] = 0
NextThread(t) == NotStarted(t) => \A u \in Threads : u < t => ~NotStarted(u)

\* Mutant: the work item stays in the queue when a thread takes it.
StartWorker_requeue(t) ==
  /\ InFanOut /\ fpc \in {"submit", "results", "shutdown"}
  /\ thr[t] = Idle /\ NextThread(t)
  /\ QueueHead(Kind) # 0
  /\ LET it == <<Kind, QueueHead(Kind)>> IN
       /\ thr' = [thr EXCEPT ![t] = it]
       /\ wpc' = [wpc EXCEPT ![it] = "get"]
       /\ runs' = [runs EXCEPT ![it] = @ + 1]
  /\ UNCHANGED <<mainpc, caller, build, declared, mainErr, fpc, cursor, submitted,
                 raising, task, err, calls, engineVars, exportVars, clientVars, outerVars>>

\* _WorkItem.run: set_running_or_notify_cancel, then fn(*args).
StartWorker(t) ==
  /\ InFanOut /\ fpc \in {"submit", "results", "shutdown"}
  /\ thr[t] = Idle /\ NextThread(t)
  /\ QueueHead(Kind) # 0
  /\ LET it == <<Kind, QueueHead(Kind)>> IN
       /\ task' = [task EXCEPT ![it] = "running"]
       /\ thr' = [thr EXCEPT ![t] = it]
       /\ wpc' = [wpc EXCEPT ![it] = "get"]
       /\ runs' = [runs EXCEPT ![it] = @ + 1]
  /\ UNCHANGED <<mainpc, caller, build, declared, mainErr, fpc, cursor, submitted, raising,
                 err, calls, engineVars, exportVars, clientVars, outerVars>>

\* The futures after the one the iterator was waiting for, still queued:
\* result_iterator's `finally: for future in fs: future.cancel()`.
CancelRest(k, c) ==
  [it \in Items |->
     IF it[1] = k /\ it[2] > c /\ task[it] = "queued" THEN "cancelled" ELSE task[it]]

\* Mutant: the loop goes on to the next future when one has failed.
NextResult_skip ==
  /\ InFanOut /\ fpc = "results"
  /\ IF cursor > CountOf(Kind)
     THEN /\ fpc' = "shutdown"
          /\ UNCHANGED cursor
     ELSE /\ task[<<Kind, cursor>>] \in {"ok", "failed"}
          /\ cursor' = cursor + 1
          /\ UNCHANGED fpc
  /\ UNCHANGED <<mainpc, caller, build, declared, mainErr, submitted, raising, task,
                 wpc, thr, err, runs, calls, engineVars, exportVars, clientVars, outerVars>>

\* Mutant: the results are taken as the futures complete, in any order.
NextResult_completed ==
  /\ InFanOut /\ fpc = "results"
  /\ IF cursor > CountOf(Kind)
     THEN /\ fpc' = "shutdown"
          /\ UNCHANGED <<cursor, raising, task>>
     ELSE \/ \E it \in ItemsOf(Kind) :
               /\ it[2] >= cursor /\ task[it] = "failed"
               /\ raising' = err[it]
               /\ task' = CancelRest(Kind, cursor)
               /\ fpc' = "shutdown"
               /\ UNCHANGED cursor
          \/ /\ task[<<Kind, cursor>>] = "ok"
             /\ cursor' = cursor + 1
             /\ UNCHANGED <<fpc, raising, task>>
  /\ UNCHANGED <<mainpc, caller, build, declared, mainErr, submitted, wpc, thr, err, runs,
                 calls, engineVars, exportVars, clientVars, outerVars>>

\* `for _ in exec.map(...): pass`: the result of the next future, in order.
NextResult ==
  /\ InFanOut /\ fpc = "results"
  /\ IF cursor > CountOf(Kind)
     THEN /\ fpc' = "shutdown"
          /\ UNCHANGED <<cursor, raising, task>>
     ELSE LET it == <<Kind, cursor>> IN
          /\ task[it] \in {"ok", "failed"}
          /\ IF task[it] = "ok"
             THEN /\ cursor' = cursor + 1
                  /\ UNCHANGED <<fpc, raising, task>>
             ELSE /\ raising' = err[it]
                  /\ task' = CancelRest(Kind, cursor)
                  /\ fpc' = "shutdown"
                  /\ UNCHANGED cursor
  /\ UNCHANGED <<mainpc, caller, build, declared, mainErr, submitted, wpc, thr, err, runs,
                 calls, engineVars, exportVars, clientVars, outerVars>>

\* Mutant: shutdown(wait=False), the call does not join the pool.
PoolJoined_nowait == TRUE

\* Leaving the `with` block: shutdown(wait=True) joins every pool thread, which
\* ends once the queue is drained; then the call returns or raises.
PoolJoined ==
  \A it \in ItemsOf(Kind) : task[it] \notin {"queued", "running"}

\* Mutant: the error of the result iterator is dropped on the way out.
FanOutExit_swallow ==
  /\ InFanOut /\ fpc = "shutdown"
  /\ PoolJoined
  /\ fpc' = "call"
  /\ mainpc' = AfterFanOut
  /\ UNCHANGED <<mainErr, caller, build, declared, cursor, submitted, raising, task,
                 wpc, thr, err, runs, calls, engineVars, exportVars, outerVars>>
  /\ tls' = [t \in AllThreads |-> IF t \in Threads THEN {} ELSE tls[t]]
  /\ made' = [t \in AllThreads |-> IF t \in Threads THEN 0 ELSE made[t]]
  /\ usedBy' = [t \in AllThreads |-> IF t \in Threads THEN {} ELSE usedBy[t]]

FanOutExit ==
  /\ InFanOut /\ fpc = "shutdown"
  /\ PoolJoined
  /\ fpc' = "call"
  /\ IF raising = NoErr
     THEN /\ mainpc' = AfterFanOut
          /\ UNCHANGED mainErr
     ELSE /\ mainpc' = "error"
          /\ mainErr' = raising
  /\ UNCHANGED <<caller, build, declared, cursor, submitted, raising, task, wpc, thr, err,
                 runs, calls, engineVars, exportVars, outerVars>>
  /\ tls' = [t \in AllThreads |-> IF t \in Threads THEN {} ELSE tls[t]]
  /\ made' = [t \in AllThreads |-> IF t \in Threads THEN 0 ELSE made[t]]
  /\ usedBy' = [t \in AllThreads |-> IF t \in Threads THEN {} ELSE usedBy[t]]

\* ------------------------------------------------- steps of a worker thread
Log(it, op, res, code) ==
  calls' = [calls EXCEPT ![it] = Append(@, Call(op, res, code))]

\* The worker moves on to `next`, returns, or raises e.
Goto(t, it, next, e) ==
  IF next = "return"
  THEN /\ task' = [task EXCEPT ![it] = "ok"]
       /\ thr' = [thr EXCEPT ![t] = Idle]
       /\ wpc' = [wpc EXCEPT ![it] = "end"]
       /\ UNCHANGED err
  ELSE IF next = "raise"
  THEN /\ task' = [task EXCEPT ![it] = "failed"]
       /\ thr' = [thr EXCEPT ![t] = Idle]
       /\ wpc' = [wpc EXCEPT ![it] = "end"]
       /\ err' = [err EXCEPT ![it] = e]
  ELSE /\ wpc' = [wpc EXCEPT ![it] = next]
       /\ UNCHANGED <<task, thr, err>>

\* The storage taken as one slot for the whole process.
ClientSlot_global(t) == 0

\* __thread_local = local(): a thread reads and writes its own attributes.
ClientSlot(t) == t

\* client(): the client stored for the calling thread, created by
\* docker.from_env when there is none; the caller then makes its engine call
\* with it.
ClientCall(t) ==
  LET slot == ClientSlot(t)
      fresh == tls[slot] = {}
      handle == IF fresh THEN t ELSE CHOOSE h \in tls[slot] : TRUE
  IN /\ tls' = [tls EXCEPT ![slot] = {handle}]
     /\ made' = [made EXCEPT ![t] = @ + (IF fresh THEN 1 ELSE 0)]
     /\ usedBy' = [usedBy EXCEPT ![handle] = @ \cup {t}]

At(t, k, pc) == thr[t] # Idle /\ thr[t][1] = k /\ wpc[thr[t]] = pc

workerFrame == <<mainpc, caller, build, declared, mainErr, fpc, cursor, submitted,
                 raising, runs, exportVars, outerVars>>

\* ----------------------------------------------------------- _ensure_image
\* Mutant: `if get(): delete(); create()`, the build flag is not looked at.
ensure_image_get_always(t) ==
  /\ At(t, "image", "get")
  /\ LET it == thr[t]
         found == image[it[2]]
     IN /\ Log(it, "images.get", IF found THEN "found" ELSE "notfound", 0)
        /\ Goto(t, it, IF found THEN "delete_get" ELSE "build", NoErr)
  /\ ClientCall(t)
  /\ UNCHANGED <<workerFrame, engineVars>>

\* Mutant: a forced rebuild builds over the image without removing it.
ensure_image_get_nodelete(t) ==
  /\ At(t, "image", "get")
  /\ LET it == thr[t]
         found == image[it[2]]
     IN /\ Log(it, "images.get", IF found THEN "found" ELSE "notfound", 0)
        /\ Goto(t, it, IF found /\ ~build THEN "return" ELSE "build", NoErr)
  /\ ClientCall(t)
  /\ UNCHANGED <<workerFrame, engineVars>>

\* get(): client().images.get(name); then `if get(): if build: ... else: create()`
ensure_image_get(t) ==
  /\ At(t, "image", "get")
  /\ LET it == thr[t]
         found == image[it[2]]
     IN /\ Log(it, "images.get", IF found THEN "found" ELSE "notfound", 0)
        /\ Goto(t, it, IF found THEN (IF build THEN "delete_get" ELSE "return")
                       ELSE "build", NoErr)
  /\ ClientCall(t)
  /\ UNCHANGED <<workerFrame, engineVars>>

\* delete(): client().images.get(name) ...
ensure_image_delete_get(t) ==
  /\ At(t, "image", "delete_get")
  /\ LET it == thr[t]
         found == image[it[2]]
     IN /\ Log(it, "images.get", IF found THEN "found" ELSE "notfound", 0)
        /\ Goto(t, it, IF found THEN "delete_remove" ELSE "raise",
                Err("ImageNotFound", it, 0))
  /\ ClientCall(t)
  /\ UNCHANGED <<workerFrame, engineVars>>

\* ... .remove(force=True)
ensure_image_delete_remove(t) ==
  /\ At(t, "image", "delete_remove")
  /\ LET it == thr[t] IN
        /\ Log(it, "image.remove", "ok", 0)
        /\ image' = [image EXCEPT ![it[2]] = FALSE]
        /\ Goto(t, it, "build", NoErr)
  /\ UNCHANGED <<workerFrame, clientVars, container>>

\* create(): logs = client().api.build(**{**spec, "tag": name, "pull": True})
ensure_image_create_build(t) ==
  /\ At(t, "image", "build")
  /\ LET it == thr[t] IN
        /\ Log(it, "api.build", "ok", 0)
        /\ Goto(t, it, "logs", NoErr)
  /\ ClientCall(t)
  /\ UNCHANGED <<workerFrame, engineVars>>

\* create(): the loop over the build output.  The engine tags the image or
\* not while the stream is read (a failed build only sends an "error" line,
\* which the loop skips); a line that is not a JSON object makes json.loads
\* or the `in` test raise.
ensure_image_create_logs(t) ==
  /\ At(t, "image", "logs")
  /\ LET it == thr[t] IN
     \E tagged \in BOOLEAN, stream \in {"json", "garbage"} :
        /\ image' = [image EXCEPT ![it[2]] = tagged]
        /\ UNCHANGED calls
        /\ Goto(t, it, IF stream = "json" THEN "requery" ELSE "raise",
                Err("JSONDecodeError", it, 0))
  /\ UNCHANGED <<workerFrame, clientVars, container>>

\* Mutant: the result of the re-query is not checked.
ensure_image_create_requery_lenient(t) ==
  /\ At(t, "image", "requery")
  /\ LET it == thr[t]
         found == image[it[2]]
     IN /\ Log(it, "images.get", IF found THEN "found" ELSE "notfound", 0)
        /\ Goto(t, it, "return", NoErr)
  /\ ClientCall(t)
  /\ UNCHANGED <<workerFrame, engineVars>>

\* create(): the re-query after the stream ends.
ensure_image_create_requery(t) ==
  /\ At(t, "image", "requery")
  /\ LET it == thr[t]
         found == image[it[2]]
     IN /\ Log(it, "images.get", IF found THEN "found" ELSE "notfound", 0)
        /\ Goto(t, it, IF found THEN "return" ELSE "raise",
                Err("BuildFailure", it, 0))
  /\ ClientCall(t)
  /\ UNCHANGED <<workerFrame, engineVars>>

\* ------------------------------------------------------------ _run_builder
\* The image a builder runs: {project}_{spec["image"]}.
ImageOf(b) == ((b - 1) % NImages) + 1

\* The status the last container.wait() of the item returned (0 if none).
LastStatus(it) ==
  LET w == {n \in 1..Len(calls[it]) : calls[it][n].op = "container.wait"}
  IN IF w = {} THEN 0
     ELSE calls[it][CHOOSE n \in w : \A m \in w : m <= n].code

\* get(): container = client().containers.get(name)
run_builder_get(t) ==
  /\ At(t, "builder", "get")
  /\ LET it == thr[t]
         found == container[it[2]] # Absent
     IN /\ Log(it, "containers.get", IF found THEN "found" ELSE "notfound", 0)
        /\ Goto(t, it, IF found THEN "wait" ELSE "run", NoErr)
  /\ ClientCall(t)
  /\ UNCHANGED <<workerFrame, engineVars>>

\* Mutant: a container that exited with 0 is kept whatever build says.
run_builder_get_wait_noforce(t) ==
  /\ At(t, "builder", "wait")
  /\ LET it == thr[t]
         c == container[it[2]]
     IN /\ c.state = "exited"
        /\ Log(it, "container.wait", "exited", c.code)
        /\ Goto(t, it, IF c.code = 0 THEN "return" ELSE "delete_get", NoErr)
  /\ UNCHANGED <<workerFrame, clientVars, engineVars>>

\* get(): result = container.wait(), which returns once the container has
\* exited; status 0 -> True (then `if build: delete(); create()`), otherwise
\* delete() and False (then create()).
run_builder_get_wait(t) ==
  /\ At(t, "builder", "wait")
  /\ LET it == thr[t]
         c == container[it[2]]
     IN /\ c.state = "exited"
        /\ Log(it, "container.wait", "exited", c.code)
        /\ Goto(t, it, IF c.code = 0 /\ ~build THEN "return" ELSE "delete_get", NoErr)
  /\ UNCHANGED <<workerFrame, clientVars, engineVars>>

\* delete(): client().containers.get(name) ...  A NotFound raised here is
\* caught only inside get() (line 95), where it makes get() return False.
run_builder_delete_get(t) ==
  /\ At(t, "builder", "delete_get")
  /\ LET it == thr[t]
         found == container[it[2]] # Absent
     IN /\ Log(it, "containers.get", IF found THEN "found" ELSE "notfound", 0)
        /\ Goto(t, it,
                IF found THEN "delete_remove"
                ELSE IF LastStatus(it) # 0 THEN "run" ELSE "raise",
                Err("NotFound", it, 0))
  /\ ClientCall(t)
  /\ UNCHANGED <<workerFrame, engineVars>>

\* ... .remove(force=True); create() follows on both paths.
run_builder_delete_remove(t) ==
  /\ At(t, "builder", "delete_remove")
  /\ LET it == thr[t] IN
        /\ Log(it, "container.remove", "ok", 0)
        /\ container' = [container EXCEPT ![it[2]] = Absent]
        /\ Goto(t, it, "run", NoErr)
  /\ UNCHANGED <<workerFrame, clientVars, image>>

\* create(): client().containers.run(**{**spec, "name": name}, detach=True).
\* The engine refuses a name that is taken and an image it does not have.
run_builder_create_run(t) ==
  /\ At(t, "builder", "run")
  /\ LET it == thr[t]
         b == it[2]
     IN IF container[b] # Absent
        THEN /\ Log(it, "containers.run", "conflict", 0)
             /\ Goto(t, it, "raise", Err("APIError", it, 0))
             /\ UNCHANGED container
        ELSE IF ~image[ImageOf(b)]
        THEN /\ Log(it, "containers.run", "noimage", 0)
             /\ Goto(t, it, "raise", Err("ImageNotFound", it, 0))
             /\ UNCHANGED container
        ELSE /\ Log(it, "containers.run", "ok", 0)
             /\ container' = [container EXCEPT ![b] = Running]
             /\ Goto(t, it, "logs", NoErr)
  /\ ClientCall(t)
  /\ UNCHANGED <<workerFrame, image>>

\* The engine: a running container terminates with some status.
ContainerExits(b) ==
  /\ container[b] = Running /\ b \notin hung
  /\ \E c \in ExitCodes : container' = [container EXCEPT ![b] = Exited(c)]
  /\ UNCHANGED <<mainpc, caller, build, declared, mainErr, poolVars, image, exportVars, clientVars, outerVars>>

\* create(): `for line in container.logs(stream=True)`: the stream ends when
\* the container has exited.
run_builder_create_logs(t) ==
  /\ At(t, "builder", "logs")
  /\ LET it == thr[t] IN
        /\ container[it[2]].state = "exited"
        /\ Log(it, "container.logs", "end", 0)
        /\ Goto(t, it, "wait_run", NoErr)
  /\ UNCHANGED <<workerFrame, clientVars, engineVars>>

\* Mutant: a nonzero status of the new run is retried again.
run_builder_create_wait_retry(t) ==
  /\ At(t, "builder", "wait_run")
  /\ LET it == thr[t]
         c == container[it[2]]
     IN /\ c.state = "exited"
        /\ Log(it, "container.wait", "exited", c.code)
        /\ Goto(t, it, IF c.code = 0 THEN "return" ELSE "delete_get", NoErr)
  /\ UNCHANGED <<workerFrame, clientVars, engineVars>>

\* Mutant: the status of the new run is not checked.
run_builder_create_wait_lenient(t) ==
  /\ At(t, "builder", "wait_run")
  /\ LET it == thr[t]
         c == container[it[2]]
     IN /\ c.state = "exited"
        /\ Log(it, "container.wait", "exited", c.code)
        /\ Goto(t, it, "return", NoErr)
  /\ UNCHANGED <<workerFrame, clientVars, engineVars>>

\* Mutant: the wait is repeated until the status is 0.
run_builder_create_wait_poll(t) ==
  /\ At(t, "builder", "wait_run")
  /\ LET it == thr[t]
         c == container[it[2]]
     IN /\ c.state = "exited"
        /\ IF c.code = 0
           THEN /\ Log(it, "container.wait", "exited", c.code)
                /\ Goto(t, it, "return", NoErr)
           ELSE UNCHANGED <<calls, task, thr, wpc, err>>
  /\ UNCHANGED <<workerFrame, clientVars, engineVars>>

\* Mutant: a container that exited nonzero is removed before the error is raised.
run_builder_create_wait_cleanup(t) ==
  /\ At(t, "builder", "wait_run")
  /\ LET it == thr[t]
         c == container[it[2]]
     IN /\ c.state = "exited"
        /\ Log(it, "container.wait", "exited", c.code)
        /\ Goto(t, it, IF c.code = 0 THEN "return" ELSE "raise",
                Err("RunFailure", it, c.code))
        /\ container' = (IF c.code = 0 THEN container
                         ELSE [container EXCEPT ![it[2]] = Absent])
  /\ UNCHANGED <<workerFrame, clientVars, image>>

\* create(): result = container.wait(); a nonzero status raises.
run_builder_create_wait(t) ==
  /\ At(t, "builder", "wait_run")
  /\ LET it == thr[t]
         c == container[it[2]]
     IN /\ c.state = "exited"
        /\ Log(it, "container.wait", "exited", c.code)
        /\ Goto(t, it, IF c.code = 0 THEN "return" ELSE "raise",
                Err("RunFailure", it, c.code))
  /\ UNCHANGED <<workerFrame, clientVars, engineVars>>

\* The steps main's calls can take: with build=False the image is never
\* removed.
Worker(t) ==
  \/ ensure_image_get(t)
  \/ ensure_image_create_build(t)
  \/ ensure_image_create_logs(t)
  \/ ensure_image_create_requery(t)
  \/ run_builder_get(t)
  \/ run_builder_get_wait(t)
  \/ run_builder_delete_get(t)
  \/ run_builder_delete_remove(t)
  \/ run_builder_create_run(t)
  \/ run_builder_create_logs(t)
  \/ run_builder_create_wait(t)

\* The steps only a forced rebuild takes.
ForcedRebuild(t) ==
  \/ ensure_image_delete_get(t)
  \/ ensure_image_delete_remove(t)

FanOut ==
  \/ FanOutNone
  \/ FanOutEnter
  \/ Submit
  \/ NextResult
  \/ FanOutExit
  \/ \E t \in Threads : StartWorker(t)
  \/ \E b \in Builders : ContainerExits(b)

NextCall == FanOut \/ \E t \in Threads : (Worker(t) \/ ForcedRebuild(t))

SpecCall == InitCall /\ [][NextCall]_vars

\* One run_builders call after another, with no change to the engine in
\* between: when a call has returned or raised, run_builders is called again,
\* with either value of build.  prev keeps how the last call that had a
\* mapping left the worker of each builder.
Outcome(b) ==
  LET it == <<"builder", b>> IN
  IF task[it] = "failed" /\ err[it].kind = "RunFailure" THEN "runfailed"
  ELSE IF task[it] = "ok" THEN "ok"
  ELSE "other"

CallAgain ==
  /\ caller = "direct" /\ mainpc \in {"done", "error"}
  /\ ncall < MaxCalls
  /\ ncall' = ncall + 1
  /\ prev' = [b \in Builders |->
                IF declared["builder"] = "mapping" THEN Outcome(b) ELSE prev[b]]
  /\ mainpc' = "run_builders"
  /\ build' \in BOOLEAN
  /\ declared' = [k \in {"image", "builder"} |-> "unread"]
  /\ mainErr' = NoErr
  /\ UNCHANGED <<caller, poolVars, engineVars, exportVars, clientVars, hung, netVars>>

InitTwice == InitCall /\ mainpc = "run_builders"

BuilderWorker(t) ==
  \/ run_builder_get(t)
  \/ run_builder_get_wait(t)
  \/ run_builder_delete_get(t)
  \/ run_builder_delete_remove(t)
  \/ run_builder_create_run(t)
  \/ run_builder_create_logs(t)
  \/ run_builder_create_wait(t)

NextTwice == FanOut \/ CallAgain \/ \E t \in Threads : BuilderWorker(t)

SpecTwice == InitTwice /\ [][NextTwice]_vars

\* ------------------------------------------------- simulate-net: Graph.run
\* Graph.run from the launch of the node and hub processes on.  The builder
\* takes no part in it.
builderVars == <<mainpc, caller, build, declared, mainErr, poolVars, engineVars,
                 exportVars, clientVars, hung, ncall, prev>>

InitNet ==
  /\ mainpc = "done"
  /\ caller = "main"
  /\ build = FALSE
  /\ declared = [k \in {"image", "builder"} |-> "unread"]
  /\ mainErr = NoErr
  /\ InitPool /\ InitExport /\ InitClient
  /\ image = [i \in Images |-> TRUE]
  /\ container = [b \in Builders |-> Absent]
  /\ hung = {}
  /\ ncall = 1
  /\ prev = [b \in Builders |-> "none"]
  /\ netpc = "launch"
  /\ nidx = 1
  /\ procs = [p \in Procs |-> "none"]
  /\ signalled = {}
  /\ waited = {}

\* subprocesses = [subprocess.Popen(command) for command in node_commands + hub_commands]
Launch ==
  /\ netpc = "launch"
  /\ IF nidx <= NProcs
     THEN /\ procs' = [procs EXCEPT ![nidx] = "running"]
          /\ nidx' = nidx + 1
          /\ UNCHANGED netpc
     ELSE /\ netpc' = "sleep"
          /\ UNCHANGED <<procs, nidx>>
  /\ UNCHANGED <<signalled, waited, builderVars>>

\* A node or hub process ends, on its own or after SIGTERM.
ProcExits(p) ==
  /\ procs[p] = "running"
  /\ procs' = [procs EXCEPT ![p] = "exited"]
  /\ UNCHANGED <<netpc, nidx, signalled, waited, builderVars>>

\* sleep(1.0)
Sleep ==
  /\ netpc = "sleep"
  /\ netpc' = "connect"
  /\ nidx' = 1
  /\ UNCHANGED <<procs, signalled, waited, builderVars>>

\* wait_all([subprocess.Popen(nodes[origin].connect_to_hub(hubs[dest])) ...]):
\* one connection command after the other is waited for.
Connect ==
  /\ netpc = "connect"
  /\ IF nidx <= NConns
     THEN nidx' = nidx + 1 /\ UNCHANGED netpc
     ELSE netpc' = "wait" /\ nidx' = 1
  /\ UNCHANGED <<procs, signalled, waited, builderVars>>

\* try: wait_all(subprocesses): process.wait() returns when the process has
\* ended; after the last one the finally block is entered.
WaitAll ==
  /\ netpc = "wait"
  /\ IF nidx <= NProcs
     THEN /\ procs[nidx] = "exited"
          /\ nidx' = nidx + 1
          /\ UNCHANGED netpc
     ELSE /\ netpc' = "finally"
          /\ nidx' = 1
  /\ UNCHANGED <<procs, signalled, waited, builderVars>>

\* finally: for process in subprocesses: process.terminate() ...
Terminate ==
  /\ netpc = "finally" /\ nidx <= NProcs /\ nidx \notin signalled
  /\ signalled' = signalled \cup {nidx}
  /\ UNCHANGED <<netpc, nidx, procs, waited, builderVars>>

\* ... process.wait(); after the last process Graph.run returns.
Reap ==
  /\ netpc = "finally"
  /\ IF nidx <= NProcs
     THEN /\ nidx \in signalled /\ procs[nidx] = "exited"
          /\ waited' = waited \cup {nidx}
          /\ nidx' = nidx + 1
          /\ UNCHANGED netpc
     ELSE /\ netpc' = "returned"
          /\ UNCHANGED <<nidx, waited>>
  /\ UNCHANGED <<procs, signalled, builderVars>>

\* A KeyboardInterrupt, or another exception, where Graph.run is.  Only
\* wait_all(subprocesses) is inside the try: raised there it is caught and
\* the finally block runs; raised anywhere else it leaves Graph.run.
RaisedAt ==
  [launch |-> "raised_launch", sleep |-> "raised_sleep",
   connect |-> "raised_connect", finally |-> "raised_finally"]

Interrupt ==
  /\ netpc \in {"launch", "sleep", "connect", "wait", "finally"}
  /\ IF netpc = "wait"
     THEN netpc' = "finally" /\ nidx' = 1
     ELSE netpc' = RaisedAt[netpc] /\ UNCHANGED nidx
  /\ UNCHANGED <<procs, signalled, waited, builderVars>>

NextNet ==
  \/ Launch
  \/ Sleep
  \/ Connect
  \/ WaitAll
  \/ Terminate
  \/ Reap
  \/ Interrupt
  \/ \E p \in Procs : ProcExits(p)

SpecNet == InitNet /\ [][NextNet]_vars

\* ---------------------------------------------------------- the export tree
\* A node of buildspec["exports"] as YAML gives it: null, a scalar, or a
\* mapping (its items in declaration order, as <<key, node>> pairs).
Null == [tag |-> "null", items |-> <<>>, s |-> "", n |-> 0]
Str(s) == [tag |-> "str", items |-> <<>>, s |-> s, n |-> 0]
\* The scalar naming builder b.
Ref(b) == [tag |-> "str", items |-> <<>>, s |-> "builder", n |-> b]
Map(items) == [tag |-> "map", items |-> items, s |-> "", n |-> 0]

HasKey(node, k) == \E j \in 1..Len(node.items) : node.items[j][1] = k
Get(node, k) ==
  node.items[CHOOSE j \in 1..Len(node.items) : node.items[j][1] = k][2]

Leaf(kind, path, b, arg) == [kind |-> kind, path |-> path, builder |-> b, arg |-> arg]

\* _export: the leaves of a node in the order the generator reaches them.  The
\* cases are tried in the order of the match statement: a mapping pattern
\* matches any mapping that holds its keys, whatever their values and whatever
\* other keys there are.  A leaf keeps the nodes the pattern bound (arg is the
\* script or the resource, builder the number of the builder the `from` value
\* names, 0 when it names none).  "bad" is a node whose traversal raises
\* (spec.items() of a scalar); an empty mapping yields nothing.
RECURSIVE _export(_, _)
RECURSIVE ExportItems(_, _, _)
ExportItems(items, j, path) ==
  IF j > Len(items) THEN <<>>
  ELSE _export(Append(path, items[j][1]), items[j][2]) \o ExportItems(items, j + 1, path)

_export(path, spec) ==
  IF spec.tag = "null" THEN <<Leaf("file", path, 0, Null)>>
  ELSE IF spec.tag = "map" /\ HasKey(spec, "run")
  THEN <<Leaf("run", path, 0, Get(spec, "run"))>>
  ELSE IF spec.tag = "map" /\ HasKey(spec, "from") /\ HasKey(spec, "import")
  THEN <<Leaf("from", path, Get(spec, "from").n, Get(spec, "import"))>>
  ELSE IF spec.tag = "map" THEN ExportItems(spec.items, 1, path)
  ELSE <<Leaf("bad", path, 0, Null)>>

\* The export trees the model draws buildspec["exports"] from.
Artifact(b) == Map(<< <<"from", Ref(b)>>, <<"import", Str("/out/result.bin")>> >>)
ExportTrees ==
  { Map(<< <<"a", Map(<< <<"one.txt", Null>>, <<"two.txt", Artifact(1)>> >>)>> >>),
    Map(<< <<"bin", Artifact(NBuilders)>>,
           <<"version", Map(<< <<"run", Str("scripts/version.sh")>> >>)>> >>),
    Map(<< <<"x", Artifact(NBuilders + 1)>> >>) }

\* The trees export() is handed when it is called on its own: the above, and
\* trees with an empty mapping, a scalar, a `from` without `import`, a mapping
\* whose children are named run, or from and import, and a tree that is
\* itself a leaf.
OddTrees ==
  { Map(<< <<"a", Map(<<>>)>>, <<"b", Null>> >>),
    Map(<< <<"ok.txt", Null>>, <<"bad", Str("oops")>> >>),
    Map(<< <<"c", Map(<< <<"from", Ref(1)>> >>)>> >>),
    Map(<< <<"bin", Map(<< <<"run", Null>>, <<"x", Null>> >>)>> >>),
    Map(<< <<"d", Map(<< <<"from", Null>>, <<"import", Null>> >>)>> >>),
    Map(<< <<"run", Str("scripts/version.sh")>> >>) }
AllTrees == ExportTrees \cup OddTrees

\* ------------------------------------------------------------------- main
mainOnly == <<caller, build, declared, poolVars, engineVars, outerVars>>

\* env.set_env(buildspec["env"]): a script that fails, or a bad entry, raises.
SetEnv ==
  /\ mainpc = "set_env"
  /\ \E ok \in BOOLEAN :
       IF ok THEN mainpc' = "ensure_images" /\ UNCHANGED mainErr
       ELSE mainpc' = "error" /\ mainErr' = Err("EnvError", Idle, 0)
  /\ UNCHANGED <<mainOnly, clientVars, exportVars>>

\* os.system(f"rm -rf {original_pwd}/dist"), then export() is entered with
\* buildspec["exports"].
Clean ==
  /\ mainpc = "clean"
  /\ dist' = {}
  /\ \E tr \in ExportTrees :
       /\ tree' = tr
       /\ exports' = _export(<<>>, tr)
       /\ src' = <<>>
  /\ leaf' = 1
  /\ mainpc' = "export"
  /\ UNCHANGED <<mainOnly, clientVars, mainErr, pending, resolved, round, dist1>>

\* Resolve where a leaf whose resolution fails is passed over.
Resolve_skip ==
  /\ mainpc = "export" /\ pending = NoPending /\ leaf <= Len(exports)
  /\ \E source \in (IF leaf <= Len(src) THEN {src[leaf]} ELSE Source) :
     LET e == exports[leaf]
         fails ==
           \/ e.kind = "bad"
           \/ ~source.ok
           \/ e.kind = "file" /\ e.path = <<>>
           \/ e.kind = "run" /\ e.arg.tag # "str"
           \/ e.kind = "from" /\ (e.builder \notin Builders \/ container[e.builder] = Absent
                                    \/ e.arg.tag # "str")
     IN /\ resolved' = resolved \cup {leaf}
        /\ src' = (IF leaf <= Len(src) THEN src ELSE Append(src, source))
        /\ IF e.kind = "from" THEN ClientCall(0) ELSE UNCHANGED clientVars
        /\ IF fails
           THEN leaf' = leaf + 1 /\ UNCHANGED pending
           ELSE /\ pending' = [kind |-> e.kind, path |-> e.path, bytes |-> source.bytes]
                /\ UNCHANGED leaf
  /\ UNCHANGED <<mainpc, mainErr, mainOnly, tree, exports, round, dist1, dist>>

\* _export at a leaf: the bytes of the leaf, or the error of its resolution.
\* What the source of a leaf holds is found when it is first read and stays.
\* open("/".join(path), "rb") of a file that is not there (the empty path
\* never is), script.split / resource.split of a value that is no string, a
\* script that exits nonzero, a container that does not exist or does not
\* hold the resource: each raises.
Resolve ==
  /\ mainpc = "export" /\ pending = NoPending /\ leaf <= Len(exports)
  /\ \E source \in (IF leaf <= Len(src) THEN {src[leaf]} ELSE Source) :
     LET e == exports[leaf]
         nocontainer == e.builder \notin Builders \/ container[e.builder] = Absent
         fails ==
           \/ e.kind = "bad"
           \/ ~source.ok
           \/ e.kind = "file" /\ e.path = <<>>
           \/ e.kind = "run" /\ e.arg.tag # "str"
           \/ e.kind = "from" /\ (nocontainer \/ e.arg.tag # "str")
         kind ==
           IF e.kind = "bad" THEN "AttributeError"
           ELSE IF e.kind = "file" THEN "IOError"
           ELSE IF e.kind = "run"
           THEN (IF e.arg.tag # "str" THEN "AttributeError" ELSE "RunFailure")
           ELSE IF nocontainer \/ e.arg.tag = "str" THEN "NotFound"
           ELSE "APIError"
     IN /\ resolved' = resolved \cup {leaf}
        /\ src' = (IF leaf <= Len(src) THEN src ELSE Append(src, source))
        /\ IF e.kind = "from" THEN ClientCall(0) ELSE UNCHANGED clientVars
        /\ IF fails
           THEN /\ mainpc' = "error"
                /\ mainErr' = Err(kind, Idle, leaf)
                /\ UNCHANGED pending
           ELSE /\ pending' = [kind |-> e.kind, path |-> e.path, bytes |-> source.bytes]
                /\ UNCHANGED <<mainpc, mainErr>>
  /\ UNCHANGED <<mainOnly, tree, exports, round, dist1, leaf, dist>>

\* Write where the folder is made without exist_ok: a folder that is there raises.
Write_strict ==
  /\ mainpc = "export" /\ pending # NoPending
  /\ LET folder(q) == SubSeq(q, 1, Len(q) - 1)
         exists == \E f \in dist : Len(f.path) > 1 /\ folder(f.path) = folder(pending.path)
     IN IF pending.path = <<>> \/ exists
        THEN /\ mainpc' = "error"
             /\ mainErr' = Err("FileExistsError", Idle, leaf)
             /\ UNCHANGED <<dist, leaf>>
        ELSE /\ dist' = {f \in dist : f.path # pending.path}
                          \cup {[path |-> pending.path, bytes |-> pending.bytes]}
             /\ leaf' = leaf + 1
             /\ UNCHANGED <<mainpc, mainErr>>
  /\ pending' = NoPending
  /\ UNCHANGED <<mainOnly, clientVars, tree, exports, src, round, dist1, resolved>>

\* Write where the file is opened for appending.
Write_append ==
  /\ mainpc = "export" /\ pending # NoPending
  /\ IF pending.path = <<>>
     THEN /\ mainpc' = "error"
          /\ mainErr' = Err("IsADirectoryError", Idle, leaf)
          /\ UNCHANGED <<dist, leaf>>
     ELSE /\ dist' = {f \in dist : f.path # pending.path}
                       \cup {[path |-> pending.path,
                              bytes |-> IF \E f \in dist : f.path = pending.path
                                        THEN (CHOOSE f \in dist : f.path = pending.path).bytes
                                               \o pending.bytes
                                        ELSE pending.bytes]}
          /\ leaf' = leaf + 1
          /\ UNCHANGED <<mainpc, mainErr>>
  /\ pending' = NoPending
  /\ UNCHANGED <<mainOnly, clientVars, tree, exports, src, round, dist1, resolved>>

\* export: os.makedirs(folder, exist_ok=True); open(raw, "wb"); f.write(contents).
\* "wb" truncates: the file holds the bytes written and nothing else.  With
\* the empty path raw is the output directory itself and open raises.
Write ==
  /\ mainpc = "export" /\ pending # NoPending
  /\ IF pending.path = <<>>
     THEN /\ mainpc' = "error"
          /\ mainErr' = Err("IsADirectoryError", Idle, leaf)
          /\ UNCHANGED <<dist, leaf>>
     ELSE /\ dist' = {f \in dist : f.path # pending.path}
                       \cup {[path |-> pending.path, bytes |-> pending.bytes]}
          /\ leaf' = leaf + 1
          /\ UNCHANGED <<mainpc, mainErr>>
  /\ pending' = NoPending
  /\ UNCHANGED <<mainOnly, clientVars, tree, exports, src, round, dist1, resolved>>

\* The generator is exhausted: export returns.
ExportReturn ==
  /\ mainpc = "export" /\ pending = NoPending /\ leaf > Len(exports)
  /\ mainpc' = (IF caller = "main" THEN "tag" ELSE "done")
  /\ UNCHANGED <<mainErr, mainOnly, clientVars, exportVars>>

\* `if "VERSION" in os.environ: os.system(f"cp -r {output} {tagged_dir}")`;
\* the copy lands beside dist/latest and leaves it as it is.
Tag ==
  /\ mainpc = "tag"
  /\ mainpc' = "postbuild"
  /\ UNCHANGED <<mainErr, mainOnly, clientVars, exportVars>>

\* postbuild.run: the script, when there is one, may exit nonzero.
Postbuild ==
  /\ mainpc = "postbuild"
  /\ \E ok \in BOOLEAN :
       IF ok THEN mainpc' = "done" /\ UNCHANGED mainErr
       ELSE mainpc' = "error" /\ mainErr' = Err("PostbuildError", Idle, 0)
  /\ UNCHANGED <<mainOnly, clientVars, exportVars>>

Main ==
  \/ SetEnv
  \/ Clean
  \/ Resolve
  \/ Write
  \/ ExportReturn
  \/ Tag
  \/ Postbuild

\* export called on its own, over a tree and leaf sources that stay as they
\* are, with whatever containers there are; and called again after it returned.
InitExportCall ==
  /\ mainpc = "export"
  /\ caller = "export"
  /\ build = FALSE
  /\ declared = [k \in {"image", "builder"} |-> "unread"]
  /\ mainErr = NoErr
  /\ InitPool /\ InitEngine /\ InitClient /\ InitOuter
  /\ hung = {}
  /\ image = [i \in Images |-> TRUE]
  /\ tree \in AllTrees
  /\ exports = _export(<<>>, tree)
  /\ src = <<>>
  /\ round = 1
  /\ dist1 = {}
  /\ leaf = 1
  /\ pending = NoPending
  /\ resolved = {}
  /\ dist = OldDist

ExportAgain ==
  /\ mainpc = "done" /\ caller = "export" /\ round < MaxRounds
  /\ round' = round + 1
  /\ dist1' = dist
  /\ leaf' = 1
  /\ resolved' = {}
  /\ mainpc' = "export"
  /\ UNCHANGED <<mainErr, mainOnly, clientVars, tree, exports, src, pending, dist>>

NextExport == Resolve \/ Write \/ ExportReturn \/ ExportAgain

SpecExport == InitExportCall /\ [][NextExport]_vars

Next == Main \/ FanOut \/ \E t \in Threads : Worker(t)

Spec == Init /\ [][Next]_vars

\* The pipeline under fair scheduling: the calling thread and every pool
\* thread take a step they can take, and a container that is not hung
\* exits.  A hung container stays running for ever.
InitLive ==
  /\ mainpc = "set_env"
  /\ caller = "main"
  /\ build = FALSE
  /\ declared = [k \in {"image", "builder"} |-> "unread"]
  /\ mainErr = NoErr
  /\ InitPool /\ InitEngine /\ InitExport /\ InitClient /\ InitOuter
  /\ hung \in SUBSET Builders

CallerSteps == Main \/ FanOutNone \/ FanOutEnter \/ Submit \/ NextResult \/ FanOutExit
ThreadSteps(t) == StartWorker(t) \/ Worker(t)

SpecLive ==
  /\ InitLive /\ [][Next]_vars
  /\ WF_vars(CallerSteps)
  /\ \A t \in Threads : WF_vars(ThreadSteps(t))
  /\ \A b \in Builders : WF_vars(ContainerExits(b))

\* ------------------------------------------------------------- the claims
ImageItems == ItemsOf("image")
BuilderItems == ItemsOf("builder")

\* How many calls of `op` the worker of `it` has made, and where the first is.
CountOp(it, op) == Cardinality({n \in 1..Len(calls[it]) : calls[it][n].op = op})
FirstOp(it, op) ==
  LET w == {n \in 1..Len(calls[it]) : calls[it][n].op = op}
  IN IF w = {} THEN 0 ELSE CHOOSE n \in w : \A m \in w : n <= m
Ended(it) == task[it] \in {"ok", "failed"}

\* The image was present at the lookup _ensure_image starts with.
ImageFoundFirst(it) ==
  Len(calls[it]) >= 1 /\ calls[it][1] = Call("images.get", "found", 0)

\* The container was there at the lookup of _run_builder and its wait returned
\* status c.
ContainerFoundWith(it, c) ==
  /\ Len(calls[it]) >= 2
  /\ calls[it][1] = Call("containers.get", "found", 0)
  /\ calls[it][2] = Call("container.wait", "exited", c)

\* Exactly one call of `first`, then exactly one of `second`, once the worker
\* has ended; never more than one of either, and no `second` before `first`.
OnceThenOnce(it, first, second) ==
  /\ CountOp(it, first) <= 1
  /\ CountOp(it, second) <= 1
  /\ CountOp(it, second) = 1 =>
       CountOp(it, first) = 1 /\ FirstOp(it, first) < FirstOp(it, second)
  /\ Ended(it) => CountOp(it, first) = 1 /\ CountOp(it, second) = 1

\* C1: an image that is present at the lookup, with build = false, is left
\* alone: the lookup is the only engine call, there is no build and no remove,
\* and the worker has returned without an error.
C1_PresentImageNoop ==
  \A it \in ImageItems :
    (ImageFoundFirst(it) /\ ~build) =>
      /\ calls[it] = <<Call("images.get", "found", 0)>>
      /\ task[it] = "ok"
      /\ err[it] = NoErr

C1_Witness ==
  /\ ~build /\ mainpc = "done"
  /\ \E it \in ImageItems : ImageFoundFirst(it) /\ task[it] = "ok"

\* C2: an image that is present at the lookup, with build = true, is removed
\* exactly once and then built exactly once, the remove before the build.
C2_ForcedRebuildOnce ==
  \A it \in ImageItems :
    (ImageFoundFirst(it) /\ build) => OnceThenOnce(it, "image.remove", "api.build")

C2_Witness ==
  /\ build
  /\ \E it \in ImageItems :
       /\ ImageFoundFirst(it) /\ Ended(it)
       /\ FirstOp(it, "image.remove") < FirstOp(it, "api.build")

\* The worker ran a build and made the re-query that follows the build output.
Requeried(it) ==
  /\ CountOp(it, "api.build") = 1
  /\ FirstOp(it, "api.build") < Len(calls[it])
  /\ calls[it][Len(calls[it])].op = "images.get"

\* C3: when a build was run and the tag is absent at the re-query after the
\* build output, the worker ends in the build-failure error that names the
\* image; a worker that ran a build and returned found the tag at the re-query.
C3_BuildWithoutTagFails ==
  \A it \in ImageItems :
    /\ (Requeried(it) /\ calls[it][Len(calls[it])].res = "notfound") =>
         task[it] = "failed" /\ err[it] = Err("BuildFailure", it, 0)
    /\ (CountOp(it, "api.build") >= 1 /\ task[it] = "ok") =>
         Requeried(it) /\ calls[it][Len(calls[it])].res = "found"

C3_Witness ==
  \E it \in ImageItems :
    /\ Requeried(it) /\ calls[it][Len(calls[it])].res = "notfound"
    /\ task[it] = "failed"

\* C4: a container that is present and exited with status 0: with build =
\* false the lookup and the wait are the only calls (no run, no remove) and
\* the worker returns without an error; with build = true there is exactly
\* one remove and then exactly one run.
C4_SucceededBuilder ==
  \A it \in BuilderItems :
    ContainerFoundWith(it, 0) =>
      IF build
      THEN OnceThenOnce(it, "container.remove", "containers.run")
      ELSE /\ Len(calls[it]) = 2
           /\ task[it] = "ok"
           /\ err[it] = NoErr

C4_Witness ==
  /\ build
  /\ \E it \in BuilderItems :
       /\ ContainerFoundWith(it, 0) /\ Ended(it)
       /\ FirstOp(it, "container.remove") < FirstOp(it, "containers.run")

\* C5: a container that is present and exited nonzero is removed exactly once
\* and run exactly once, for both values of build; when the new run exits
\* nonzero too the worker ends in the error naming the container and the
\* status, without another remove or run.
C5_FailedBuilderRetriedOnce ==
  \A it \in BuilderItems :
    (\E c \in ExitCodes \ {0} : ContainerFoundWith(it, c)) =>
      /\ OnceThenOnce(it, "container.remove", "containers.run")
      /\ runs[it] = 1
      /\ \A n \in 3..Len(calls[it]) :
           (calls[it][n].op = "container.wait" /\ calls[it][n].code # 0) =>
             /\ n = Len(calls[it])
             /\ task[it] = "failed"
             /\ err[it] = Err("RunFailure", it, calls[it][n].code)

C5_Witness ==
  \E it \in BuilderItems :
    /\ \E c \in ExitCodes \ {0} : ContainerFoundWith(it, c)
    /\ CountOp(it, "container.wait") = 2
    /\ task[it] = "failed" /\ err[it].kind = "RunFailure"

\* --------------------------------------------- the fan-out and the pipeline
Kinds == {"image", "builder"}
Phase(k) == IF k = "image" THEN "ensure_images" ELSE "run_builders"
\* The fan-out call of kind k got a mapping / is under way / has ended.
Called(k) == declared[k] = "mapping"
InCall(k) == mainpc = Phase(k)
Left(k) == Called(k) /\ ~InCall(k)
\* It raised: the calling thread ended with the error of an item of kind k.
Raised(k) == mainpc = "error" /\ mainErr.item[1] = k
ReturnedOK(k) == Left(k) /\ ~Raised(k)
Unfinished(it) == task[it] \in {"queued", "running"}

\* C6: a worker of a fan-out call is queued or running only between the
\* start of that call and its end, and a pool thread holds an item only of the
\* call under way; a builder worker is started or makes an engine call only
\* after ensure_images has ended, with no image worker unfinished; an export
\* leaf is resolved and the output directory is touched only after
\* run_builders has ended, with no builder worker unfinished.
C6_PhasesOrdered ==
  /\ \A k \in Kinds :
       (~InCall(k) \/ fpc = "call") => \A it \in ItemsOf(k) : ~Unfinished(it)
  /\ \A t \in Threads : thr[t] # Idle => InFanOut /\ thr[t][1] = Kind
  /\ (\E b \in BuilderItems : calls[b] # <<>> \/ task[b] # "none") =>
       /\ declared["image"] # "unread" /\ mainpc \notin {"set_env", "ensure_images"}
       /\ \A i \in ImageItems : ~Unfinished(i)
  /\ (resolved # {} \/ dist # OldDist \/ exports # <<>>) =>
       /\ declared["builder"] # "unread" /\ ~InFanOut
       /\ \A b \in BuilderItems : ~Unfinished(b)

C6_Witness ==
  /\ mainpc = "export" /\ resolved # {}
  /\ Called("image") /\ Called("builder")
  /\ \A b \in BuilderItems : task[b] = "ok"
  /\ \E b \in BuilderItems : CountOp(b, "containers.run") = 1

\* C7: once the worker of an image or of a builder has failed, the pipeline
\* is inside that fan-out call or has ended in an error: the output directory
\* is as it was, no export leaf was resolved, nothing was written; and after
\* the failure of an image no builder worker was started or made any call.
C7_FailureAbortsBeforeExport ==
  \A it \in Items :
    task[it] = "failed" =>
      /\ mainpc \in {Phase(it[1]), "error"}
      /\ dist = OldDist /\ resolved = {} /\ exports = <<>> /\ pending = NoPending
      /\ it[1] = "image" =>
           \A b \in BuilderItems : calls[b] = <<>> /\ runs[b] = 0 /\ task[b] = "none"

C7_Witness ==
  /\ mainpc = "error"
  /\ \E b \in BuilderItems : task[b] = "failed" /\ mainErr = err[b]

\* C8: a fan-out call that has returned normally has the worker of every item
\* succeeded; a fan-out call that has ended with the worker of some item
\* failed has raised, and the error it raised is the error of a failed item.
C8_FailureNeverSwallowed ==
  \A k \in Kinds :
    /\ ReturnedOK(k) => \A it \in ItemsOf(k) : task[it] = "ok"
    /\ (Left(k) /\ \E it \in ItemsOf(k) : task[it] = "failed") =>
         /\ Raised(k)
         /\ \E it \in ItemsOf(k) : task[it] = "failed" /\ mainErr = err[it]

C8_Witness ==
  \E k \in Kinds :
    /\ Raised(k)
    /\ \E it \in ItemsOf(k) : task[it] = "failed" /\ mainErr = err[it]
    /\ \E it \in ItemsOf(k) : task[it] = "ok"

\* C9 as claimed: once a fan-out call has ended, the worker of every item has
\* run exactly once and has completed.
C9_EveryItemRunOnce ==
  \A k \in Kinds :
    Left(k) => \A it \in ItemsOf(k) : runs[it] = 1 /\ Ended(it)

\* C9, amended: the worker of an item is never run twice; once a fan-out call
\* has ended, every worker that was started has completed, and an item whose
\* worker was not run was cancelled in the queue after the failure of an item
\* declared before it, in a call that raised; a call that returned normally
\* has run the worker of every item exactly once.
C9_RunOnceUnlessCancelled ==
  \A k \in Kinds :
    /\ \A it \in ItemsOf(k) : runs[it] <= 1
    /\ Left(k) =>
         \A it \in ItemsOf(k) :
           \/ runs[it] = 1 /\ Ended(it)
           \/ /\ runs[it] = 0 /\ task[it] = "cancelled" /\ calls[it] = <<>>
              /\ Raised(k)
              /\ \E f \in ItemsOf(k) : f[2] < it[2] /\ task[f] = "failed"
    /\ ReturnedOK(k) => \A it \in ItemsOf(k) : runs[it] = 1 /\ task[it] = "ok"

C9_Witness ==
  \E k \in Kinds :
    /\ Raised(k)
    /\ \E it \in ItemsOf(k) : task[it] = "cancelled" /\ runs[it] = 0
    /\ \E it \in ItemsOf(k) : task[it] = "failed"

\* C10: an export leaf that takes its bytes from a declared builder is
\* resolved only with that builder's container exited with status 0; and when
\* run_builders has returned normally, the last status the worker of every
\* builder saw is 0 and the container it saw is still there, exited 0.
C10_ArtifactFromSucceededBuilder ==
  /\ \A n \in resolved :
       (exports[n].kind = "from" /\ exports[n].builder \in Builders /\ Called("builder")) =>
         container[exports[n].builder] = Exited(0)
  /\ ReturnedOK("builder") =>
       \A it \in BuilderItems :
         /\ CountOp(it, "container.wait") >= 1
         /\ LastStatus(it) = 0
         /\ container[it[2]] = Exited(0)

C10_Witness ==
  /\ Called("builder") /\ mainpc = "export"
  /\ pending # NoPending /\ pending.kind = "from"
  /\ exports[leaf].builder \in Builders
  /\ CountOp(<<"builder", exports[leaf].builder>>, "containers.run") = 1

\* ------------------------------------------------- the claims about export
\* A node that is no leaf of any shape and no mapping of well-formed children:
\* a scalar, an empty mapping, or a mapping that holds one.
RECURSIVE HasMalformed(_)
HasMalformed(node) ==
  IF node.tag = "null" THEN FALSE
  ELSE IF node.tag = "str" THEN TRUE
  ELSE IF HasKey(node, "run") \/ (HasKey(node, "from") /\ HasKey(node, "import")) THEN FALSE
  ELSE \/ Len(node.items) = 0
       \/ \E j \in 1..Len(node.items) : HasMalformed(node.items[j][2])

\* C11: an export tree that holds a malformed node (a scalar, an empty
\* mapping, a mapping with `from` but no `import`) never lets export return
\* normally, and the error export ends in at such a node is a
\* SpecificationError.
C11_MalformedRejected ==
  HasMalformed(tree) =>
    /\ mainpc # "done"
    /\ (mainpc = "error" /\ exports[mainErr.code].kind = "bad") =>
         mainErr.kind = "SpecificationError"

\* The file export writes for leaf n, and the files of all leaves.
LeafFile(n) == [path |-> exports[n].path, bytes |-> src[n].bytes]
LeafFiles == {LeafFile(n) : n \in 1..Len(exports)}
ResolutionErrors == {"AttributeError", "IOError", "RunFailure", "NotFound", "APIError"}
BelowRoot == \A n \in 1..Len(exports) : exports[n].path # <<>>

\* C12 as stated: export ends in an error only when the resolution of a leaf
\* fails, every leaf that resolved has its file at its path with its bytes,
\* and when export returns the output directory holds what it held before and
\* exactly one file per leaf.
C12_OneFilePerLeaf ==
  /\ mainpc = "error" => mainErr.kind \in ResolutionErrors
  /\ \A n \in 1..Len(exports) : (n < leaf \/ round > 1) => LeafFile(n) \in dist
  /\ mainpc = "done" =>
       /\ dist = OldDist \cup LeafFiles
       /\ Cardinality(LeafFiles) = Len(exports)

\* C12, amended: the same, for every export tree whose root is a subtree, so
\* that each leaf is reached through at least one segment; distinct leaves
\* then have distinct paths, and writing a second file under a folder that is
\* there does not fail.
C12_OneFilePerLeafBelowRoot ==
  BelowRoot =>
    /\ mainpc = "error" => mainErr.kind \in ResolutionErrors
    /\ \A n \in 1..Len(exports) : (n < leaf \/ round > 1) => LeafFile(n) \in dist
    /\ \A n, k \in 1..Len(exports) : n # k => exports[n].path # exports[k].path
    /\ mainpc = "done" =>
         /\ dist = OldDist \cup LeafFiles
         /\ Cardinality(LeafFiles) = Len(exports)

\* Two sibling leaves, a file copy and a container artifact, both written
\* under the one folder a/.
C12_Witness ==
  /\ mainpc = "done" /\ caller = "export" /\ round = 1
  /\ Len(exports) = 2
  /\ exports[1].kind = "file" /\ exports[2].kind = "from"
  /\ SubSeq(exports[1].path, 1, 1) = SubSeq(exports[2].path, 1, 1)
  /\ Len(exports[1].path) = 2
  /\ {LeafFile(1), LeafFile(2)} \subseteq dist

\* C13: export run again over the same output directory, the same tree and
\* the same leaf sources leaves the directory as the run before left it: the
\* same files with the same bytes, at every step of the later run and when it
\* returns.
C13_ExportIdempotent ==
  round > 1 => dist = dist1

\* The second run has returned after overwriting both files of a tree of two
\* leaves.
C13_Witness ==
  /\ round = 2 /\ mainpc = "done"
  /\ Len(exports) = 2 /\ leaf = 3
  /\ resolved = {1, 2}
  /\ LeafFiles \subseteq dist1

\* C14: leaves are resolved in the order the traversal reaches them and each
\* is written before the next is resolved; every leaf export has passed has
\* its file on disk.  When the resolution of leaf k fails, export ends in an
\* error, the leaves resolved are exactly 1..k, and the output directory
\* holds what it held before and the files of leaves 1..k-1, whole.
C14_AbortKeepsEarlierLeaves ==
  /\ resolved \subseteq 1..Len(exports)
  /\ \A n \in resolved : \A k \in 1..n : k \in resolved
  /\ \A n \in resolved : n <= leaf /\ (n > 1 => LeafFile(n - 1) \in dist)
  /\ \A n \in 1..Len(exports) : n < leaf => LeafFile(n) \in dist
  /\ (leaf <= Len(exports) /\ leaf \in resolved /\ pending = NoPending) => mainpc = "error"
  /\ (caller = "export" /\ mainpc = "error" /\ mainErr.kind \in ResolutionErrors) =>
       /\ mainErr.code = leaf
       /\ resolved = 1..leaf
       /\ round = 1 => dist = OldDist \cup {LeafFile(n) : n \in 1..(leaf - 1)}

\* The second of two leaves failed to resolve after the first was written.
C14_Witness ==
  /\ mainpc = "error" /\ caller = "export"
  /\ Len(exports) = 2 /\ leaf = 2 /\ resolved = {1, 2}
  /\ dist = OldDist \cup {LeafFile(1)}

\* The leaves of a tree read by the shape of its nodes: a mapping is a script
\* run or a container artifact when the values of `run`, or of `from` and
\* `import`, are scalars, and a subtree when its values are nodes.
IsNode(v) == v.tag \in {"null", "map"}
RECURSIVE SubtreeLeaves(_, _)
RECURSIVE SubtreeItems(_, _, _)
SubtreeItems(items, j, path) ==
  IF j > Len(items) THEN <<>>
  ELSE SubtreeLeaves(Append(path, items[j][1]), items[j][2]) \o SubtreeItems(items, j + 1, path)
SubtreeLeaves(path, node) ==
  IF node.tag # "map" THEN <<path>>
  ELSE IF HasKey(node, "run") /\ ~IsNode(Get(node, "run")) THEN <<path>>
  ELSE IF /\ HasKey(node, "from") /\ HasKey(node, "import")
          /\ ~IsNode(Get(node, "from")) /\ ~IsNode(Get(node, "import")) THEN <<path>>
  ELSE SubtreeItems(node.items, 1, path)

\* C15: a mapping whose children are nodes is traversed as a subtree whatever
\* their names (run, or from and import): the leaves export works through are
\* the descendant leaves, one per path, none of them a script run or a
\* container artifact made of the mapping itself, and when export returns
\* each has its output.
C15_SubtreeTraversed ==
  resolved # {} =>
  /\ [n \in 1..Len(exports) |-> exports[n].path] = SubtreeLeaves(<<>>, tree)
  /\ \A n \in 1..Len(exports) :
       exports[n].kind \in {"run", "from"} => ~IsNode(exports[n].arg)
  /\ mainpc = "done" =>
       \A n \in 1..Len(SubtreeLeaves(<<>>, tree)) :
         \E f \in dist : f.path = SubtreeLeaves(<<>>, tree)[n]

\* ------------------------------------------- the claims about the fan-outs
\* C16: under every interleaving a thread creates at most one client, the
\* client stored for a thread is the one that thread created, and every
\* engine call made with a client is made by the thread that created it: no
\* client is used by two threads.
C16_OneClientPerThread ==
  \A t \in AllThreads :
    /\ made[t] <= 1
    /\ tls[t] \subseteq {t}
    /\ usedBy[t] \subseteq {t}
    /\ (made[t] = 1) = (tls[t] = {t})

\* Two pool threads are at work at once, each with the client it created,
\* and one of them is on a later engine call of its item.
C16_Witness ==
  /\ \A t \in Threads : thr[t] # Idle /\ usedBy[t] = {t} /\ made[t] = 1
  /\ \E t \in Threads : Len(calls[thr[t]]) >= 2

\* A container that never reaches a terminal state has been started.
HungRunning == \E b \in hung : container[b] = Running
Finished == mainpc \in {"done", "error"}

\* C17: under fair scheduling, with every engine call returning, the pipeline
\* finishes, with success or an error, unless a container that never exits
\* is running; when it has finished no worker is queued or running, so every
\* worker and every fan-out call has ended too; and once such a container is
\* running the pipeline stays inside run_builders: it never reaches the
\* export phase and never ends.
C17_FinishesUnlessHung ==
  /\ <>(Finished \/ HungRunning)
  /\ [](Finished => \A it \in Items : task[it] \notin {"queued", "running"})
  /\ [](HungRunning => [](mainpc = "run_builders"))

\* The pipeline has ended well after a builder was run and waited for.
C17_Witness ==
  /\ mainpc = "done" /\ hung = {}
  /\ \E it \in BuilderItems :
       /\ CountOp(it, "containers.run") = 1
       /\ CountOp(it, "container.wait") = 1
  /\ Len(exports) >= 2 /\ leaf > Len(exports)

\* C18: the error a fan-out call is about to raise, and the error it has
\* raised, is the error of a failed item before which every declared item
\* has succeeded: the first failing item in declaration order.  While an
\* earlier item is unfinished the failure of a later one raises nothing.
C18_FirstDeclaredFailure ==
  /\ \A e \in {raising, mainErr} :
       (e # NoErr /\ e.item # Idle) =>
         /\ task[e.item] = "failed" /\ e = err[e.item]
         /\ \A it \in ItemsOf(e.item[1]) : it[2] < e.item[2] => task[it] = "ok"
  /\ \A k \in Kinds :
       (InCall(k) /\ \E it \in ItemsOf(k) :
                       /\ Unfinished(it)
                       /\ \A j \in ItemsOf(k) : j[2] < it[2] => task[j] = "ok") =>
         raising = NoErr

\* Two items of one call have failed and the call has raised the error of
\* the first.
C18_Witness ==
  \E k \in Kinds :
    /\ Raised(k)
    /\ mainErr = err[<<k, 1>>]
    /\ task[<<k, 1>>] = "failed" /\ task[<<k, 2>>] = "failed"

\* C19: a builder whose run ended with a nonzero status has its exited
\* container left in place by the call that raised; it stays so until the
\* next run_builders call removes it; that call, whatever build is, finds it
\* exited nonzero, removes it once and runs it once.  A builder whose worker
\* returned has its container exited with status 0, and a later call with
\* build = false makes no run and no remove for it and leaves it so.
C19_FailedLeftThenRetried ==
  \A b \in Builders :
    LET it == <<"builder", b>>
        failedExit == container[b].state = "exited" /\ container[b].code # 0
    IN /\ (task[it] = "failed" /\ err[it].kind = "RunFailure") =>
            failedExit /\ container[b].code = err[it].code
       /\ (prev[b] = "runfailed" /\ (~Called("builder") \/ CountOp(it, "container.remove") = 0)) =>
            failedExit
       /\ (prev[b] = "runfailed" /\ Called("builder") /\ Ended(it)) =>
            /\ \E c \in ExitCodes \ {0} : ContainerFoundWith(it, c)
            /\ CountOp(it, "container.remove") = 1
            /\ CountOp(it, "containers.run") = 1
       /\ (prev[b] = "ok" /\ (~Called("builder") \/ ~build)) =>
            /\ container[b] = Exited(0)
            /\ Called("builder") =>
                 CountOp(it, "containers.run") = 0 /\ CountOp(it, "container.remove") = 0

\* In the second call, made with build = false, the builder that failed in
\* the first has been removed and run once more while the one that succeeded
\* was only looked up and waited for.
C19_Witness ==
  /\ ncall = 2 /\ ~build /\ Left("builder")
  /\ prev[1] = "runfailed" /\ prev[2] = "ok"
  /\ CountOp(<<"builder", 1>>, "container.remove") = 1
  /\ CountOp(<<"builder", 1>>, "containers.run") = 1
  /\ Ended(<<"builder", 2>>) /\ CountOp(<<"builder", 2>>, "containers.run") = 0

\* -------------------------------------------- the claim about simulate-net
Launched == {p \in Procs : procs[p] # "none"}

\* C20: when Graph.run has returned, or has let an exception out that was
\* raised after the launch (in the pause, in the connection set-up), every
\* process it launched was sent terminate and was waited for.
C20_AllTerminated ==
  netpc \in {"returned", "raised_sleep", "raised_connect"} =>
    \A p \in Launched : p \in signalled /\ p \in waited
====
